---------------------------- MODULE Spec2Model ----------------------------
(***************************************************************************)
(* Supervision core of the caption application (src/caption_app.py):       *)
(* TranscriptionState, the adapter threads, start/stop/switch_mode, the    *)
(* health monitor, the thread-died handler and the phone/room router,     *)
(* together with the mute helper (src/mute_helper.py) that shares the      *)
(* phone device and the phone file with it.                                *)
(*                                                                         *)
(* The Qt main thread runs one handler at a time; adapter threads run      *)
(* concurrently and talk to the main thread through queued signals.        *)
(* Sleeps inside start_transcription / switch_mode are the points where    *)
(* adapter threads interleave with a running handler.                      *)
(***************************************************************************)
EXTENDS Integers, Sequences, FiniteSets, TLC

\* ------------------------------------------------------------------ bounds
MaxGen == 3          \* start_transcription calls explored
RaceGen == 2         \* the same, where adapters may overlap
BudgetGen == 6       \* the same, where the restart budget is used up
EscGen == 4          \* the same, where the supervisor escalates to Offline
TwoWrites == 2       \* writes of the mute helper: a call begins and ends
TwoToggles == 2      \* presses of the mode button where a press can be a no-op
DecayTicks == 2      \* clock advances explored where the failure count decays
MaxActive == 2       \* adapter threads that have not yet finished
MaxQueue == 1        \* queued new_text signals not yet delivered
MaxTicks == 1        \* clock advances explored
MaxToggles == 1      \* presses of the mode button explored
MaxWrites == 1       \* writes of the mute helper to the phone file explored
StartTime == 1       \* time.time() at startup (never 0)

\* ------------------------------------------------------- program constants
max_restarts == 5
SUCCESS_WINDOW == 60
STALE_LIMIT == 120
PHONE_SILENCE_TIMEOUT == 10
ESCALATE_AFTER == 3

None == 0
Modes == {"online", "offline"}
Providers == {"deepgram", "azure", "groq"}
OfflineModels == {"faster-whisper", "vosk", "whisper-cpp"}

VARIABLES
    state,              \* the TranscriptionState singleton
    live,               \* capture processes currently running
    now,                \* time.time()
    phone_file,         \* PHONE_MUTED_FILE holds '1'
    config,             \* CONFIG (static)
    thr,                \* adapter threads, indexed by the generation that launched them
    main,               \* position of the Qt main thread inside a handler
    timers,             \* pending QTimer.singleShot callbacks
    queue,              \* signals queued from adapter threads to the main thread
    view,               \* CaptionView.current_mode / status label, MainWindow.phone_was_active
    hist,               \* observations: start calls, signals emitted by the last step
    lim,                \* the bounds of the specification being explored (static)
    helper              \* position of the mute helper (src/mute_helper.py)

vars == <<state, live, now, phone_file, config, thr, main, timers, queue, view, hist, lim, helper>>

\* ------------------------------------------------- TranscriptionState
TranscriptionState ==
    [ mode |-> "offline", use_phone_audio |-> FALSE, last_phone_speech |-> 0,
      stop_event |-> FALSE, thread_alive |-> FALSE, last_text_time |-> 0,
      restart_count |-> 0, restarting |-> FALSE, current_proc |-> None,
      generation |-> 0, success_time |-> 0 ]

next_generation_none(s) == s

next_generation(s) == [s EXCEPT !.generation = @ + 1]

stop(s) == [s EXCEPT !.stop_event = TRUE]

clear_stop_noop(s) == s

clear_stop(s) == [s EXCEPT !.stop_event = FALSE]

is_stopped_never(s) == FALSE

is_stopped(s) == s.stop_event

can_restart_lax(s) == s.restart_count <= max_restarts

can_restart(s) == s.restart_count < max_restarts

increment_restart_twice(s) == [s EXCEPT !.restart_count = @ + 2]

increment_restart(s) == [s EXCEPT !.restart_count = @ + 1]

reset_restart_count(s) == [s EXCEPT !.restart_count = 0, !.restarting = FALSE]

mark_success_nodecay(s, t) ==
    [s EXCEPT !.last_text_time = t, !.success_time = IF @ = 0 THEN t ELSE @]

mark_success(s, t) ==
    LET s1 == [s EXCEPT !.last_text_time = t] IN
    IF s1.success_time = 0 THEN [s1 EXCEPT !.success_time = t]
    ELSE IF t - s1.success_time > SUCCESS_WINDOW /\ s1.restart_count > 0
         THEN [s1 EXCEPT !.restart_count = 0]
         ELSE s1

reset_success_timer(s) == [s EXCEPT !.success_time = 0]

set_restarting_noop(s, v) == s

set_restarting(s, v) == [s EXCEPT !.restarting = v]

\* set_proc / kill_proc act on the state and on the process table; they
\* return both.
set_proc(s, L, p) ==
    [ st |-> [s EXCEPT !.current_proc = p],
      live |-> IF s.current_proc # None THEN L \ {s.current_proc} ELSE L ]

kill_proc(s, L) ==
    [ st |-> [s EXCEPT !.current_proc = None],
      live |-> IF s.current_proc # None THEN L \ {s.current_proc} ELSE L ]

proc_alive(s, L) == s.current_proc # None /\ s.current_proc \in L


\* ------------------------------------------------- adapter threads
OnlineKinds == {"deepgram_thread", "azure_thread", "groq_thread"}
OfflineKinds == {"faster_whisper_thread", "vosk_thread", "whisper_thread"}

\* the mode an adapter reports in thread_died.emit(...)
ModeOf(kind) == IF kind \in OnlineKinds THEN "online" ELSE "offline"

\* status_changed.emit(...) at the top of each adapter
StatusOf(kind) ==
    CASE kind = "deepgram_thread" -> "deepgram"
      [] kind = "azure_thread" -> "azure"
      [] kind = "groq_thread" -> "groq"
      [] kind = "faster_whisper_thread" -> "whisper"
      [] kind = "vosk_thread" -> "vosk"
      [] OTHER -> "whisper"

\* range(4) in every arecord retry loop but vosk_thread's range(3)
Attempts_five(kind) == 5

Attempts(kind) == IF kind = "vosk_thread" THEN 3 ELSE 4

\* provider_threads.get(provider, deepgram_thread) / offline_threads.get(...)
thread_target(mode, cfg) ==
    IF mode = "online"
    THEN CASE cfg.stt_provider = "deepgram" -> "deepgram_thread"
           [] cfg.stt_provider = "azure" -> "azure_thread"
           [] cfg.stt_provider = "groq" -> "groq_thread"
           [] OTHER -> "deepgram_thread"
    ELSE CASE cfg.offline_model = "faster-whisper" -> "faster_whisper_thread"
           [] cfg.offline_model = "vosk" -> "vosk_thread"
           [] cfg.offline_model = "whisper-cpp" -> "whisper_thread"
           [] OTHER -> "faster_whisper_thread"

NoThread ==
    [ pc |-> "none", kind |-> "", arecord |-> None, attempt |-> 0, outer |-> "",
      died |-> 0, stopSeen |-> FALSE, canceled |-> FALSE, device |-> "" ]

NewThread(kind) == [NoThread EXCEPT !.pc = "begin", !.kind = kind]

Gens == 1..lim.gen

\* the capture process of thread g's attempt a; a retry never meets the
\* process of the attempt before the last, so two names per thread suffice
ProcId(g, a) == 2 * g + (a % 2)

Active == {g \in Gens : thr[g].pc \notin {"none", "done"}}

\* a signal emitted from an adapter thread is queued to the main thread
Emit(q, sig) == Append(q, sig)

\* what the step just taken emitted or told the view (nothing: <<>>)
Out(sigs) == [hist EXCEPT !.sig = sigs]

\* a failure was handled by the supervisor (counted up to one past the budget)
Failed(h) == [h EXCEPT !.fails = IF @ <= max_restarts THEN @ + 1 ELSE @]

NoSig == Out(<<>>)

Done == [NoThread EXCEPT !.pc = "done"]

\* leaving an adapter function: back into the caller's finally (the Vosk
\* fallback was called from faster_whisper_thread / whisper_thread), or done
Return(t) ==
    IF t.outer # ""
    THEN [t EXCEPT !.kind = t.outer, !.outer = "", !.arecord = None, !.attempt = 0, !.pc = "fin1"]
    ELSE Done

\* get_audio_device: the capture device follows use_phone_audio. Adapters
\* read it once before their retry loop, vosk_thread before every attempt.
get_audio_device_room(s) == "room"

get_audio_device(s) == IF s.use_phone_audio THEN "phone" ELSE "room"

\* missing credentials: the early return at the top of every online adapter
AdapterNoKey(g) ==
    /\ thr[g].pc = "begin" /\ thr[g].kind \in OnlineKinds /\ ~config.has_key
    /\ queue' = Emit(queue, <<"thread_died", "online">>)
    /\ state' = [state EXCEPT !.thread_alive = FALSE]
    /\ thr' = [thr EXCEPT ![g] = Done]
    /\ hist' = Out(<<<<"status", "no-key">>, <<"thread_died", "online">>>>)
    /\ UNCHANGED <<live, now, phone_file, config, main, timers, view, lim, helper>>

\* normal entry: status emitted, then on to the capture process (the SDK
\* adapter binds the device itself and goes straight to its wait loop)
AdapterBegin(g) ==
    /\ thr[g].pc = "begin"
    /\ thr[g].kind \in OnlineKinds => config.has_key
    /\ thr' = [thr EXCEPT ![g] = [@ EXCEPT !.pc = IF thr[g].kind = "azure_thread" THEN "loop" ELSE "popen",
                                         !.device = IF thr[g].kind = "vosk_thread" THEN @
                                                    ELSE get_audio_device(state)]]
    /\ hist' = Out(<<<<"status", StatusOf(thr[g].kind)>>>>)
    /\ UNCHANGED <<state, live, now, phone_file, config, main, timers, queue, view, lim, helper>>

\* ImportError in faster_whisper_thread / FileNotFoundError in whisper_thread:
\* thread_alive = False, then vosk_thread() is called in the same thread
AdapterFallbackToVosk(g) ==
    /\ thr[g].pc = "begin" /\ thr[g].kind \in {"faster_whisper_thread", "whisper_thread"}
    /\ state' = [state EXCEPT !.thread_alive = FALSE]
    /\ thr' = [thr EXCEPT ![g] = [@ EXCEPT !.outer = thr[g].kind, !.kind = "vosk_thread", !.pc = "begin"]]
    /\ hist' = Out(<<<<"status", StatusOf(thr[g].kind)>>>>)
    /\ UNCHANGED <<live, now, phone_file, config, main, timers, queue, view, lim, helper>>

\* an exception before the capture process exists (missing SDK, missing
\* model): except-branch emits 'error', then the finally block
AdapterSetupError(g) ==
    /\ thr[g].pc = "begin" /\ thr[g].kind \in {"azure_thread", "vosk_thread"}
    /\ thr[g].kind \in OnlineKinds => config.has_key
    /\ thr' = [thr EXCEPT ![g] = [@ EXCEPT !.pc = "fin1"]]
    /\ hist' = Out(<<<<"status", StatusOf(thr[g].kind)>>, <<"status", "error">>>>)
    /\ UNCHANGED <<state, live, now, phone_file, config, main, timers, queue, view, lim, helper>>

\* subprocess.Popen([...arecord...]) : a new capture process is running
AdapterPopen(g) ==
    /\ thr[g].pc = "popen"
    /\ live' = live \cup {ProcId(g, thr[g].attempt)}
    /\ thr' = [thr EXCEPT ![g] = [@ EXCEPT !.arecord = ProcId(g, thr[g].attempt), !.pc = "setproc",
                                         !.device = IF thr[g].kind = "vosk_thread"
                                                    THEN get_audio_device(state) ELSE @]]
    /\ hist' = NoSig
    /\ UNCHANGED <<state, now, phone_file, config, main, timers, queue, view, lim, helper>>

\* state.set_proc(arecord); whisper_thread has no readiness test
AdapterSetProc(g) ==
    /\ thr[g].pc = "setproc"
    /\ LET r == set_proc(state, live, thr[g].arecord) IN
        /\ state' = r.st
        /\ live' = r.live
    /\ thr' = [thr EXCEPT ![g] = [@ EXCEPT !.pc = IF thr[g].kind = "whisper_thread" THEN "loop" ELSE "test"]]
    /\ hist' = Out(IF thr[g].kind = "whisper_thread" THEN <<<<"mode_ready", "offline">>>> ELSE <<>>)
    /\ UNCHANGED <<now, phone_file, config, main, timers, queue, view, lim, helper>>

\* after the 0.3 s sleep: the process is still running (ready), or the
\* attempt failed: retry, or RuntimeError after the last attempt (the
\* attempt counter keeps its last value on the way through the finally block)
AdapterTest(g) ==
    /\ thr[g].pc = "test"
    /\ IF thr[g].arecord \in live
       THEN /\ thr' = [thr EXCEPT ![g] = [@ EXCEPT !.pc = "loop", !.attempt = 0]]
            /\ hist' = Out(<<<<"mode_ready", ModeOf(thr[g].kind)>>>>)
       ELSE IF thr[g].attempt + 1 < Attempts(thr[g].kind)
       THEN /\ thr' = [thr EXCEPT ![g] = [@ EXCEPT !.arecord = None, !.attempt = @ + 1, !.pc = "popen"]]
            /\ hist' = NoSig
       ELSE /\ thr' = [thr EXCEPT ![g] = [@ EXCEPT !.arecord = None, !.pc = "fin1", !.device = ""]]
            /\ hist' = Out(<<<<"status", "error">>>>)
    /\ UNCHANGED <<state, live, now, phone_file, config, main, timers, queue, view, lim, helper>>

\* a transcript: state.mark_success(); emitter.new_text.emit(text)
AdapterText(g) ==
    /\ thr[g].pc = "loop"
    /\ thr[g].kind = "azure_thread" \/ thr[g].arecord \in live
    /\ Len(SelectSeq(queue, LAMBDA e : e[1] = "new_text")) < lim.queue
    /\ state' = mark_success(state, now)
    /\ queue' = Emit(queue, <<"new_text", "">>)
    /\ hist' = [hist EXCEPT !.sig = <<<<"new_text", "">>>>, !.fails = 0]
    /\ UNCHANGED <<live, now, phone_file, config, thr, main, timers, view, lim, helper>>

\* the main loop ends: stop flag seen, or no more audio (capture process
\* gone); the SDK adapter only leaves its loop on the stop flag
AdapterLoopExit(g) ==
    /\ thr[g].pc = "loop"
    /\ \/ is_stopped(state)
       \/ thr[g].kind # "azure_thread" /\ thr[g].arecord \notin live
    /\ thr' = [thr EXCEPT ![g] = [@ EXCEPT !.pc = "fin1", !.stopSeen = is_stopped(state), !.device = ""]]
    /\ hist' = NoSig
    /\ UNCHANGED <<state, live, now, phone_file, config, main, timers, queue, view, lim, helper>>

\* the main loop ends on a failure: socket error/close (deepgram), read
\* error (vosk), exception in the recogniser (faster-whisper, whisper.cpp)
AdapterLoopFail(g) ==
    /\ thr[g].pc = "loop"
    /\ thr[g].kind \in {"deepgram_thread", "faster_whisper_thread", "vosk_thread", "whisper_thread"}
    /\ thr' = [thr EXCEPT ![g] = [@ EXCEPT !.pc = "fin1", !.device = ""]]
    /\ hist' = Out(IF thr[g].kind \in {"faster_whisper_thread", "whisper_thread"}
                   THEN <<<<"status", "error">>>> ELSE <<>>)
    /\ UNCHANGED <<state, live, now, phone_file, config, main, timers, queue, view, lim, helper>>

\* finally: state.thread_alive = False; terminate + reap the own arecord
AdapterFin1(g) ==
    /\ thr[g].pc = "fin1"
    /\ state' = [state EXCEPT !.thread_alive = FALSE]
    /\ live' = live \ {thr[g].arecord}
    /\ thr' = [thr EXCEPT ![g] = [@ EXCEPT !.pc = "fin2"]]
    /\ hist' = NoSig
    /\ UNCHANGED <<now, phone_file, config, main, timers, queue, view, lim, helper>>

\* finally: state.kill_proc()
AdapterFin2(g) ==
    /\ thr[g].pc = "fin2"
    /\ LET r == kill_proc(state, live) IN
        /\ state' = r.st
        /\ live' = r.live
    /\ thr' = [thr EXCEPT ![g] = [@ EXCEPT !.pc = "fin3"]]
    /\ hist' = NoSig
    /\ UNCHANGED <<now, phone_file, config, main, timers, queue, view, lim, helper>>

\* finally: if not state.is_stopped(): emitter.thread_died.emit(mode)
AdapterFin3(g) ==
    /\ thr[g].pc = "fin3"
    /\ IF is_stopped(state)
       THEN /\ queue' = queue
            /\ thr' = [thr EXCEPT ![g] = Return(@)]
            /\ hist' = NoSig
       ELSE /\ queue' = Emit(queue, <<"thread_died", ModeOf(thr[g].kind)>>)
            /\ thr' = [thr EXCEPT ![g] = Return([@ EXCEPT !.died = @ + 1])]
            /\ hist' = Out(<<<<"thread_died", ModeOf(thr[g].kind)>>>>)
    /\ UNCHANGED <<state, live, now, phone_file, config, main, timers, view, lim, helper>>

\* azure_thread's on_canceled callback (quota or auth error reported by the
\* SDK): it prints the reason and the details, nothing else
AdapterCanceled(g) ==
    /\ thr[g].pc = "loop" /\ thr[g].kind = "azure_thread" /\ ~thr[g].canceled
    /\ thr' = [thr EXCEPT ![g] = [@ EXCEPT !.canceled = TRUE]]
    /\ hist' = NoSig
    /\ UNCHANGED <<state, live, now, phone_file, config, main, timers, queue, view, lim, helper>>

\* _chunked_api_thread: transcribe_fn raises for a chunk (network drop, HTTP
\* error); the except clause inside the loop prints the error and the loop
\* goes on with the next chunk
AdapterChunkError(g) ==
    /\ thr[g].pc = "loop" /\ thr[g].kind = "groq_thread" /\ thr[g].arecord \in live
    /\ hist' = Out(<<<<"log", "API error">>>>)
    /\ UNCHANGED <<state, live, now, phone_file, config, thr, main, timers, queue, view, lim, helper>>

\* a capture process ends by itself (device busy or unplugged, arecord error)
ProcExit ==
    /\ \E p \in live : live' = live \ {p}
    /\ hist' = NoSig
    /\ UNCHANGED <<state, now, phone_file, config, thr, main, timers, queue, view, lim, helper>>

Adapter(g) ==
    \/ AdapterNoKey(g) \/ AdapterBegin(g) \/ AdapterFallbackToVosk(g) \/ AdapterSetupError(g)
    \/ AdapterPopen(g) \/ AdapterSetProc(g) \/ AdapterTest(g) \/ AdapterText(g)
    \/ AdapterLoopExit(g) \/ AdapterLoopFail(g) \/ AdapterFin1(g) \/ AdapterFin2(g) \/ AdapterFin3(g)


\* ------------------------------------------------- supervisor (main thread)
Idle == main.pc = "idle"

\* start_transcription, up to its settle sleep: state.kill_proc()
start_transcription_kill(s, L) == kill_proc(s, L)

\* start_transcription after the sleep: clear_stop, last_text_time = 0,
\* mode, reset_success_timer, thread_alive = True, next_generation
start_transcription_rest_keeps_timer(s, mode) ==
    next_generation([clear_stop(s) EXCEPT !.last_text_time = 0, !.mode = mode, !.thread_alive = TRUE])

start_transcription_rest(s, mode) ==
    next_generation(
        [reset_success_timer([clear_stop(s) EXCEPT !.last_text_time = 0, !.mode = mode])
            EXCEPT !.thread_alive = TRUE])

\* stop_transcription: state.stop(); state.kill_proc()
stop_transcription_keeps_proc(s, L) == [st |-> stop(s), live |-> L]

stop_transcription(s, L) == kill_proc(stop(s), L)

\* a handler enters start_transcription(mode); cb names the caller, whose
\* remaining statements run when start_transcription returns
EnterStart(s, L, mode, cb) ==
    LET r == start_transcription_kill(s, L) IN
    /\ state' = r.st
    /\ live' = r.live
    /\ main' = [main EXCEPT !.pc = "start_rest", !.mode = mode, !.cb = cb]

\* what the caller does after start_transcription returned
AfterStart_forgets(s, cb) == s

AfterStart(s, cb) ==
    IF cb \in {"health", "restart", "fallback", "phone", "room"} THEN set_restarting(s, FALSE) ELSE s

StartRest ==
    /\ main.pc = "start_rest"
    /\ Cardinality(Active) < lim.active
    /\ LET s1 == start_transcription_rest(state, main.mode) IN
        /\ state' = AfterStart(s1, main.cb)
        /\ thr' = [thr EXCEPT ![s1.generation] = NewThread(thread_target(main.mode, config))]
    /\ main' = [main EXCEPT !.pc = "idle", !.mode = "", !.cb = ""]
    /\ view' = IF main.cb \in {"fallback", "switch"} THEN [view EXCEPT !.current_mode = main.mode] ELSE view
    /\ hist' = [hist EXCEPT !.startCalls = @ + 1,
                            !.sig = IF main.cb = "switch" THEN <<<<"mode_changed", main.mode>>>> ELSE <<>>]
    /\ UNCHANGED <<live, now, phone_file, config, timers, queue, lim, helper>>

\* health_check: the classification of lines 1576-1585
problem(s, L, t) ==
    IF ~s.thread_alive THEN "thread dead"
    ELSE IF ~proc_alive(s, L) THEN "arecord subprocess dead"
    ELSE IF s.last_text_time > 0 /\ t - s.last_text_time > STALE_LIMIT THEN "no transcription"
    ELSE ""

health_restart_unflagged(s, L) ==
    LET s1 == increment_restart(s) IN
    IF s1.thread_alive THEN stop_transcription(s1, L) ELSE [st |-> s1, live |-> L]

\* health_check with a problem: the state after the handler
health_restart(s, L) ==
    LET s1 == increment_restart(set_restarting(s, TRUE)) IN
    IF s1.thread_alive THEN stop_transcription(s1, L) ELSE [st |-> s1, live |-> L]

\* health_check as a function of what it reads: the state, the process
\* table, the clock and the pending timers. sig is what it tells the view;
\* an early return and a heartbeat leave everything as it was.
health_check(s, L, t, T) ==
    IF s.restarting \/ is_stopped(s) \/ problem(s, L, t) = ""
    THEN [st |-> s, live |-> L, timers |-> T, sig |-> <<>>]
    ELSE IF can_restart(s)
    THEN LET r == health_restart(s, L) IN
         [st |-> r.st, live |-> r.live,
          timers |-> T \cup {[cb |-> "health", gen |-> s.generation, mode |-> s.mode]},
          sig |-> <<<<"status", "restarting">>>>]
    ELSE [st |-> s, live |-> L, timers |-> T, sig |-> <<<<"status", "error">>>>]

\* a health tick that finds a problem (the other ticks change nothing)
HealthCheck ==
    /\ Idle
    /\ LET r == health_check(state, live, now, timers) IN
        /\ r.sig # <<>>
        /\ state' = r.st
        /\ live' = r.live
        /\ timers' = r.timers
        /\ hist' = Failed(Out(r.sig))
    /\ UNCHANGED <<now, phone_file, config, thr, main, queue, view, lim, helper>>

\* on_thread_died(mode), for a signal that is not ignored
escalates_on_phone(s, mode, count) == mode = "online" /\ count >= ESCALATE_AFTER

escalates(s, mode, count) == mode = "online" /\ count >= ESCALATE_AFTER /\ ~s.use_phone_audio

OnThreadDied(mode) ==
    IF state.restarting \/ is_stopped(state)
    THEN /\ hist' = NoSig
         /\ UNCHANGED <<state, timers>>
    ELSE IF can_restart(state)
    THEN LET s1 == increment_restart(set_restarting(state, TRUE)) IN
         /\ state' = s1
         /\ IF escalates(s1, mode, s1.restart_count)
            THEN /\ timers' = timers \cup {[cb |-> "fallback", gen |-> s1.generation, mode |-> "offline"]}
                 /\ hist' = Failed(Out(<<<<"status", "fallback">>>>))
            ELSE /\ timers' = timers \cup {[cb |-> "restart", gen |-> s1.generation, mode |-> mode]}
                 /\ hist' = Failed(Out(<<<<"status", "restarting">>>>))
    ELSE /\ hist' = Failed(Out(<<<<"status", "error">>>>))
         /\ UNCHANGED <<state, timers>>

\* on_text: every transcript while on phone audio counts as phone speech
on_text(s, t) == IF s.use_phone_audio THEN [s EXCEPT !.last_phone_speech = t] ELSE s

\* the event loop delivers the oldest queued signal to its slot
Deliver ==
    /\ Idle
    /\ queue # <<>>
    /\ queue' = Tail(queue)
    /\ LET e == Head(queue) IN
        IF e[1] = "thread_died"
        THEN OnThreadDied(e[2])
        ELSE /\ state' = on_text(state, now)
             /\ hist' = NoSig
             /\ UNCHANGED timers
    /\ UNCHANGED <<live, now, phone_file, config, thr, main, view, lim, helper>>

\* a QTimer.singleShot callback runs: do_health_restart, do_restart,
\* do_fallback (generation-gated), do_phone_start, do_room_start
gated_ungated(cb) == FALSE

gated(cb) == cb \in {"health", "restart", "fallback"}

TimerSkip(t) ==
    /\ Idle /\ t \in timers
    /\ gated(t.cb) /\ state.generation # t.gen
    /\ state' = set_restarting(state, FALSE)
    /\ timers' = timers \ {t}
    /\ hist' = NoSig
    /\ UNCHANGED <<live, now, phone_file, config, thr, main, queue, view, lim, helper>>

TimerRun(t) ==
    /\ Idle /\ t \in timers
    /\ gated(t.cb) => state.generation = t.gen
    /\ state.generation < lim.gen
    /\ EnterStart(IF t.cb = "fallback" THEN reset_restart_count(state) ELSE state, live, t.mode, t.cb)
    /\ timers' = timers \ {t}
    /\ hist' = NoSig
    /\ UNCHANGED <<now, phone_file, config, thr, queue, view, lim, helper>>


\* ------------------------------------------------- router (check_muted)
\* the phone-silence rule: on phone audio and no speech for too long
phone_silent_never(s, t) == FALSE

phone_silent(s, t) ==
    s.use_phone_audio /\ s.last_phone_speech > 0 /\ t - s.last_phone_speech > PHONE_SILENCE_TIMEOUT

\* the value of phone_active the edge logic of this tick acts on
phone_active(s, file, t) == file /\ ~phone_silent(s, t)

\* what an edge writes into the state before it decides about a restart
router_edge_keeps_device(s, rising, falling, t) ==
    IF rising THEN [s EXCEPT !.last_phone_speech = t, !.last_text_time = t] ELSE s

router_edge(s, rising, falling, t) ==
    IF rising
    THEN [s EXCEPT !.use_phone_audio = TRUE, !.last_phone_speech = t, !.last_text_time = t]
    ELSE IF falling THEN [s EXCEPT !.use_phone_audio = FALSE] ELSE s

CheckMuted ==
    /\ Idle
    /\ LET act == phone_active(state, phone_file, now)
           rising == act /\ ~view.phone_was_active
           falling == ~act /\ view.phone_was_active
           s1 == router_edge(state, rising, falling, now)
           go == (rising \/ falling) /\ ~s1.restarting
           r == IF go THEN stop_transcription(set_restarting(s1, TRUE), live)
                ELSE [st |-> s1, live |-> live]
       IN
        /\ phone_file' = IF phone_silent(state, now) THEN FALSE ELSE phone_file
        /\ state' = r.st
        /\ live' = r.live
        /\ timers' = IF go
                     THEN timers \cup {[cb |-> IF rising THEN "phone" ELSE "room",
                                        gen |-> 0, mode |-> "online"]}
                     ELSE timers
        /\ view' = [view EXCEPT !.phone_was_active = act]
    /\ hist' = NoSig
    /\ UNCHANGED <<now, config, thr, main, queue, lim, helper>>

\* ------------------------------------------------- mode toggle / switch_mode
Other(m) == IF m = "offline" THEN "online" ELSE "offline"

\* toggle_mode: the target is computed from the view's mode, which is set
\* at once; then switch_mode(new_mode) up to the sleep that follows
\* stop_transcription (a no-op when the session already has that mode)
ToggleMode ==
    /\ Idle /\ hist.toggles < lim.toggles
    /\ LET new_mode == Other(view.current_mode) IN
       IF new_mode # state.mode
       THEN /\ state.generation < lim.gen
            /\ LET r == stop_transcription(state, live) IN
                /\ state' = r.st
                /\ live' = r.live
            /\ main' = [main EXCEPT !.pc = "switch_sleep", !.mode = new_mode]
            /\ view' = [view EXCEPT !.current_mode = new_mode]
            /\ hist' = [hist EXCEPT !.toggles = @ + 1, !.sig = <<<<"status", "switching">>>>]
       ELSE /\ view' = [view EXCEPT !.current_mode = new_mode]
            /\ hist' = [hist EXCEPT !.toggles = @ + 1, !.sig = <<>>]
            /\ UNCHANGED <<state, live, main>>
    /\ UNCHANGED <<now, phone_file, config, thr, timers, queue, lim, helper>>

\* switch_mode after its sleeps: start_transcription(new_mode) begins
SwitchStart ==
    /\ main.pc = "switch_sleep"
    /\ EnterStart(state, live, main.mode, "switch")
    /\ hist' = NoSig
    /\ UNCHANGED <<now, phone_file, config, thr, timers, queue, view, lim, helper>>

\* ------------------------------------------------- environment
Tick ==
    /\ now < StartTime + lim.ticks * SUCCESS_WINDOW
    /\ now' = now + SUCCESS_WINDOW
    /\ hist' = NoSig
    /\ UNCHANGED <<state, live, phone_file, config, thr, main, timers, queue, view, lim, helper>>

\* time passes in steps of the phone-silence timeout
PhoneTick ==
    /\ now < StartTime + lim.ticks * PHONE_SILENCE_TIMEOUT
    /\ now' = now + PHONE_SILENCE_TIMEOUT
    /\ hist' = NoSig
    /\ UNCHANGED <<state, live, phone_file, config, thr, main, timers, queue, view, lim, helper>>

\* the mute helper writes '1' when it hears the phone, '0' when it exits
PhoneFile ==
    /\ hist.writes < lim.writes
    /\ phone_file' = ~phone_file
    /\ hist' = [hist EXCEPT !.writes = @ + 1, !.sig = <<>>]
    /\ UNCHANGED <<state, live, now, config, thr, main, timers, queue, view, lim, helper>>

\* ------------------------------------------------- specification
\* main(): start_transcription('online') on a fresh TranscriptionState, then
\* the window and its timers
InitWith(l) ==
    /\ lim = l
    /\ config \in [stt_provider : l.providers, has_key : l.keys, offline_model : l.models]
    /\ state = start_transcription_rest(TranscriptionState, "online")
    /\ live = {}
    /\ now = StartTime
    /\ phone_file = FALSE
    /\ thr = [g \in 1..l.gen |-> IF g = 1 THEN NewThread(thread_target("online", config)) ELSE NoThread]
    /\ main = [pc |-> "idle", mode |-> "", cb |-> ""]
    /\ timers = {}
    /\ queue = <<>>
    /\ view = [current_mode |-> "online", phone_was_active |-> FALSE]
    /\ hist = [startCalls |-> 1, toggles |-> 0, writes |-> 0, fails |-> 0, sig |-> <<>>]
    /\ helper = "monitor"

\* every provider pattern, with and without credentials, every offline engine
AllConfigs == [providers |-> Providers, keys |-> BOOLEAN, models |-> OfflineModels]

Limits(gen, active, ticks, toggles, writes, cfgs) ==
    [ gen |-> gen, active |-> active, queue |-> MaxQueue, ticks |-> ticks,
      toggles |-> toggles, writes |-> writes,
      providers |-> cfgs.providers, keys |-> cfgs.keys, models |-> cfgs.models ]

NextCore ==
    \/ \E g \in Gens : Adapter(g)
    \/ ProcExit
    \/ StartRest
    \/ HealthCheck
    \/ Deliver
    \/ \E t \in timers : TimerSkip(t) \/ TimerRun(t)

\* one provider with and without credentials; the offline engine whose
\* missing package leads into the Vosk adapter
FewConfigs == [providers |-> {"deepgram"}, keys |-> BOOLEAN, models |-> {"faster-whisper"}]

\* The whole supervisor with its environment; adapters finish their cleanup
\* before the next start_transcription returns (no overlapping adapters).
Init == InitWith(Limits(MaxGen, 1, MaxTicks, MaxToggles, MaxWrites, FewConfigs))

Next == NextCore \/ CheckMuted \/ ToggleMode \/ SwitchStart \/ Tick \/ PhoneFile

Spec == Init /\ [][Next]_vars

\* Overlapping adapters: a start may find earlier adapter threads unfinished.
InitRace == InitWith(Limits(RaceGen, MaxActive, 0, MaxToggles, 0, AllConfigs))

NextRace == NextCore \/ ToggleMode \/ SwitchStart

SpecRace == InitRace /\ [][NextRace]_vars

\* Restarts and presses of the mode button, one adapter at a time.
InitSwitch == InitWith(Limits(MaxGen, 1, 0, MaxToggles, 0, FewConfigs))

SpecSwitch == InitSwitch /\ [][NextRace]_vars

\* The SDK adapter and a chunked-HTTP adapter, whose backends may fail
\* while the session runs.
BackendConfigs == [providers |-> {"azure", "groq"}, keys |-> BOOLEAN, models |-> {"faster-whisper"}]

InitBackend == InitWith(Limits(EscGen, 1, 0, 0, 0, BackendConfigs))

NextBackend == NextCore \/ \E g \in Gens : AdapterCanceled(g) \/ AdapterChunkError(g)

SpecBackend == InitBackend /\ [][NextBackend]_vars

\* The mode button pressed again after the router has started a session.
NoKeyConfigs == [providers |-> {"deepgram"}, keys |-> {FALSE}, models |-> {"faster-whisper"}]

InitToggle == InitWith(Limits(MaxGen, 1, 0, TwoToggles, MaxWrites, NoKeyConfigs))

NextToggle == NextCore \/ CheckMuted \/ PhoneFile \/ ToggleMode \/ SwitchStart

SpecToggle == InitToggle /\ [][NextToggle]_vars

\* Failure after failure, long enough to use up the restart budget.
InitBudget == InitWith(Limits(BudgetGen, 1, 0, 0, 0, FewConfigs))

SpecBudget == InitBudget /\ [][NextCore]_vars

\* Failures and transcripts while the clock advances.
InitDecay == InitWith(Limits(MaxGen, 1, DecayTicks, 0, 0, FewConfigs))

NextDecay == NextCore \/ Tick

SpecDecay == InitDecay /\ [][NextDecay]_vars

\* Online failures with and without phone audio.
InitEsc == InitWith(Limits(EscGen, 1, 0, 0, MaxWrites, FewConfigs))

NextEsc == NextCore \/ CheckMuted \/ PhoneFile

SpecEsc == InitEsc /\ [][NextEsc]_vars

\* Phone calls reported by the mute helper while the supervisor restarts
\* sessions.
InitRouter == InitWith(Limits(MaxGen, 1, 0, 0, MaxWrites, FewConfigs))

SpecRouter == InitRouter /\ [][NextEsc]_vars

\* A phone call that begins and ends.
InitCall == InitWith(Limits(MaxGen, 1, 0, 0, TwoWrites, FewConfigs))

SpecCall == InitCall /\ [][NextEsc]_vars

\* A phone call during which nothing is said for a while.
InitSilence == InitWith(Limits(RaceGen, 1, DecayTicks, 0, MaxWrites, FewConfigs))

NextSilence == NextCore \/ CheckMuted \/ PhoneFile \/ PhoneTick

SpecSilence == InitSilence /\ [][NextSilence]_vars

\* Online failures up to the escalation, and phone calls after it; the mode
\* button is never pressed.
InitDowngrade == InitWith(Limits(BudgetGen, 1, 0, 0, MaxWrites, NoKeyConfigs))

SpecDowngrade == InitDowngrade /\ [][NextEsc]_vars

\* Supervision and the mode button, with the scheduling the program has: the
\* event loop runs every due single-shot callback and every handler returns; an adapter
\* thread takes its next step, and leaves its loop once the stop flag is set
\* or its capture process is gone.
AdapterProgress(g) ==
    \/ AdapterNoKey(g) \/ AdapterBegin(g) \/ AdapterFallbackToVosk(g) \/ AdapterSetupError(g)
    \/ AdapterPopen(g) \/ AdapterSetProc(g) \/ AdapterTest(g) \/ AdapterLoopExit(g)
    \/ AdapterFin1(g) \/ AdapterFin2(g) \/ AdapterFin3(g)

Fairness ==
    /\ WF_vars(StartRest)
    /\ WF_vars(SwitchStart)
    /\ WF_vars(\E t \in timers : TimerSkip(t) \/ TimerRun(t))
    /\ \A g \in 1..MaxGen : WF_vars(AdapterProgress(g))

InitLive == InitWith(Limits(MaxGen, 1, 0, MaxToggles, 0, NoKeyConfigs))

SpecLive == InitLive /\ [][NextRace]_vars /\ Fairness

TypeOK ==
    /\ state.restart_count \in 0..max_restarts
    /\ state.generation \in 1..lim.gen

\* ------------------------------------------------- properties
\* the callbacks that carry the generation they were scheduled under
GenGated == {"health", "restart", "fallback"}

\* C1: at every instant at most one capture process is alive.
C1_OneCapture == Cardinality(live) <= 1

\* C2: a generation-gated restart callback that runs after the generation
\* has changed does nothing: no start_transcription, no new generation, no
\* change of the session mode or of the mode shown, no mode_changed signal.
C2_StaleCallbackIsNoOp ==
    [][\A t \in timers :
          (t.cb \in GenGated /\ t.gen # state.generation /\ t \notin timers')
          => /\ hist'.startCalls = hist.startCalls
             /\ main'.pc = "idle"
             /\ state'.generation = state.generation
             /\ state'.mode = state.mode
             /\ view' = view
             /\ live' = live
             /\ thr' = thr
             /\ hist'.sig = <<>>]_vars

\* a gated callback is pending and the generation it was scheduled under is
\* no longer the current one
C2_Witness ==
    \E t \in timers : t.cb \in GenGated /\ t.gen # state.generation /\ Idle

\* C3: the generation never decreases; it grows by exactly one with every
\* start_transcription call and changes in no other step.
C3_GenerationCountsStarts ==
    [][/\ state'.generation \in {state.generation, state.generation + 1}
       /\ (state'.generation = state.generation + 1) <=> (hist'.startCalls = hist.startCalls + 1)
       /\ hist'.startCalls \in {hist.startCalls, hist.startCalls + 1}]_vars

\* three start_transcription calls have been made, by different callers
C3_Witness == state.generation = MaxGen /\ hist.startCalls = MaxGen /\ hist.toggles > 0

\* C4: restartCount is always within 0..maxRestarts (5).
C4_RestartCountInRange == state.restart_count \in 0..max_restarts

\* the whole budget has been used
C4_Witness == state.restart_count = max_restarts /\ state.generation = BudgetGen

\* the supervisor handles a failure: a health check that finds a problem, or
\* a thread_died signal that is not ignored
FailureStep ==
    \/ HealthCheck
    \/ Deliver /\ Head(queue)[1] = "thread_died" /\ ~(state.restarting \/ is_stopped(state))

\* nothing but the error status: no restart scheduled, no start, no mode
\* change, counter and restarting flag as they were
TerminalStep ==
    /\ hist'.sig = <<<<"status", "error">>>>
    /\ timers' = timers
    /\ state' = state
    /\ main' = main
    /\ view' = view
    /\ hist'.startCalls = hist.startCalls

\* C5 as stated: after five failures in a row with no transcript between
\* them, the sixth failure ends in the terminal error status.
C5_SixthFailureTerminal ==
    [][(FailureStep /\ hist.fails = max_restarts /\ hist'.fails = max_restarts + 1)
          => TerminalStep]_vars

\* C5: a failure handled while restartCount equals maxRestarts ends in the
\* terminal error status: no restart is scheduled, nothing is started, the
\* mode stays, the counter is not incremented, the restarting flag is not set.
C5_ExhaustedBudgetTerminal ==
    [][(state.restart_count = max_restarts /\ FailureStep) => TerminalStep]_vars

\* five restarts were spent and the sixth failure has been handled
C5_Witness ==
    /\ state.restart_count = max_restarts /\ hist.fails = max_restarts + 1
    /\ ~state.restarting /\ timers = {}

\* start_transcription, entered by caller cb, returns in this step
StartReturns(cb) == main.pc = "start_rest" /\ main.cb = cb /\ main'.pc = "idle"

\* C6: an explicit switch_mode to the other mode resets restartCount to 0.
C6_SwitchResetsBudget ==
    [][StartReturns("switch") => state'.restart_count = 0]_vars

\* an adapter delivers a transcript
TextStep == \E g \in Gens : AdapterText(g)

\* C7 as stated: with restartCount > 0, a success 60 s or more after the
\* first success of the session resets restartCount to 0.
C7_DecayAtSixty ==
    [][(TextStep /\ state.restart_count > 0 /\ state.success_time # 0
            /\ now - state.success_time >= SUCCESS_WINDOW)
          => state'.restart_count = 0]_vars

\* C7: with restartCount > 0, a success more than 60 s after the first
\* success of the session resets restartCount to 0 (at exactly 60 s it keeps
\* its value), and a failure handled at restartCount 0 counts as 1.
C7_DecayAfterSixty ==
    [][/\ (TextStep /\ state.restart_count > 0 /\ state.success_time # 0)
          => state'.restart_count =
                IF now - state.success_time > SUCCESS_WINDOW THEN 0 ELSE state.restart_count
       /\ (FailureStep /\ state.restart_count = 0) => state'.restart_count = 1]_vars

\* one restart was spent, the count decayed, and the next failure counted as 1
C7_Witness ==
    /\ state.generation = 2 /\ state.restart_count = 1 /\ state.restarting
    /\ state.success_time # 0 /\ now - state.success_time > SUCCESS_WINDOW

\* the thread-died handler takes an Online death that is not ignored and
\* that the budget allows
OnlineDeathStep ==
    /\ Deliver /\ Head(queue) = <<"thread_died", "online">>
    /\ ~(state.restarting \/ is_stopped(state)) /\ can_restart(state)

C9_NoDiedAfterStop ==
    [][\A g \in Gens :
          (thr[g].pc = "fin3" /\ thr[g].stopSeen /\ thr'[g] # thr[g]) => queue' = queue]_vars

\* C10: no adapter thread emits thread_died a second time.
C10_DiedOnce ==
    [][\A g \in Gens :
          (thr[g].pc = "fin3" /\ thr[g].died >= 1 /\ thr'[g] # thr[g]) => queue' = queue]_vars

\* the adapter threads that are in their main loop
InLoop == {g \in Gens : thr[g].pc = "loop"}

\* C11: no two adapter threads are in their main loop at the same time.
C11_OneAdapterInLoop == Cardinality(InLoop) <= 1

\* the thread-died handler counts a death: the signal is not ignored and
\* the budget allows a restart
DeathCounted ==
    /\ Deliver /\ Head(queue)[1] = "thread_died"
    /\ ~(state.restarting \/ is_stopped(state)) /\ can_restart(state)

\* the adapter thread of the current session is ending or has ended
SessionEnding ==
    \/ thr[state.generation].pc \in {"fin1", "fin2", "fin3", "done"}
    \/ thr[state.generation].died > 0

\* C12: each death is counted once: where every start is a restart after a
\* counted failure, the thread-died handler only counts a death of the
\* current session (the death of an earlier session was counted before its
\* restart).
C12_DeathCountedOnce ==
    [][(state.mode = "offline" /\ DeathCounted) => SessionEnding]_vars

\* C13: the death of an Online adapter that has no credentials is not
\* retried: when its thread_died signal reaches the supervisor, restartCount
\* is not incremented and no restart or fallback is scheduled.
C13_NoKeyNotRetried ==
    [][(~config.has_key /\ Deliver /\ Head(queue) = <<"thread_died", "online">>)
          => /\ state'.restart_count = state.restart_count
             /\ timers' = timers]_vars

\* C14: when the SDK adapter's cancellation callback reports a quota or auth
\* error, another backend takes over in the same generation.
C14_CancelStartsFallback ==
    [][\A g \in Gens :
          (thr[g].pc = "loop" /\ ~thr[g].canceled /\ thr'[g].canceled)
          => thr'[g].kind # "azure_thread"]_vars

\* C15: a backend failure in an online adapter ends the adapter, which then
\* reports its death: a chunk whose API call fails takes the chunked-HTTP
\* adapter out of its main loop.
C15_BackendErrorEndsAdapter ==
    [][\A g \in Gens : AdapterChunkError(g) => thr'[g].pc = "fin1"]_vars

\* the mode button is pressed: toggle_mode calls switch_mode(new_mode)
SwitchCalled == Idle /\ hist'.toggles = hist.toggles + 1

\* C16: switch_mode(new_mode) does nothing when new_mode is the session's
\* mode (no status, no stop, no start, same generation); otherwise it emits
\* 'switching', stops the session, then starts new_mode and only then emits
\* mode_changed(new_mode), with state.mode = new_mode.
C16_SwitchMode ==
    [][/\ (SwitchCalled /\ view'.current_mode = state.mode)
          => /\ state' = state /\ live' = live /\ main' = main
             /\ timers' = timers /\ thr' = thr /\ hist'.sig = <<>>
             /\ hist'.startCalls = hist.startCalls
       /\ (SwitchCalled /\ view'.current_mode # state.mode)
          => /\ hist'.sig = <<<<"status", "switching">>>>
             /\ state' = [state EXCEPT !.stop_event = TRUE, !.current_proc = None]
             /\ live' = live \ {state.current_proc}
             /\ main' = [main EXCEPT !.pc = "switch_sleep", !.mode = view'.current_mode]
             /\ hist'.startCalls = hist.startCalls
       /\ (main.pc = "switch_sleep" /\ main' # main)
          => /\ main' = [main EXCEPT !.pc = "start_rest", !.cb = "switch"]
             /\ hist'.startCalls = hist.startCalls
             /\ hist'.sig = <<>>
       /\ (main.pc = "switch_sleep" \/ (main.pc = "start_rest" /\ main.cb = "switch"))
          => /\ hist'.sig # <<<<"mode_changed", main.mode>>>> \/ StartReturns("switch")
             /\ state'.mode = state.mode \/ StartReturns("switch")
       /\ StartReturns("switch")
          => /\ hist'.sig = <<<<"mode_changed", main.mode>>>>
             /\ hist'.startCalls = hist.startCalls + 1
             /\ state'.mode = main.mode /\ ~state'.stop_event
             /\ state'.generation = state.generation + 1
             /\ view'.current_mode = main.mode]_vars

\* a switch has been carried out, and a later press of the button asked for
\* the mode the session already had
C16_Witness ==
    /\ hist.toggles = TwoToggles /\ hist.sig = <<>> /\ Idle
    /\ view.current_mode = state.mode /\ state.mode = "online" /\ state.use_phone_audio

\* no session is active: the adapter thread has ended, no capture process
\* is registered, and nobody has asked for a stop
NoSession ==
    /\ Active = {} /\ ~state.thread_alive
    /\ state.current_proc = None /\ ~is_stopped(state)

\* C17: stop_transcription called while no session is active leaves the
\* session state as it was.
C17_StopWithoutSessionIsNoOp ==
    [][(NoSession /\ SwitchCalled /\ main'.pc = "switch_sleep") => state' = state]_vars

\* the session state start_transcription(mode) leaves behind
Started(s, mode) ==
    [s EXCEPT !.stop_event = FALSE, !.last_text_time = 0, !.success_time = 0,
              !.thread_alive = TRUE, !.mode = mode, !.generation = s.generation + 1]

\* C18: start_transcription(mode) terminates and clears the registered
\* capture process when it begins; when it returns stopped is false,
\* last_text_time and success_time are 0, thread_alive is true, the mode is
\* the argument, the generation is one higher and exactly one adapter thread
\* has been launched; restart_count, restarting and use_phone_audio are as
\* they were (a timer callback clears restarting right after the return).
C18_StartEffects ==
    [][/\ (main.pc # "start_rest" /\ main'.pc = "start_rest")
          => /\ state'.current_proc = None
             /\ live' = live \ {state.current_proc}
             /\ main'.cb # "fallback" => state' = [state EXCEPT !.current_proc = None]
       /\ (main.pc = "start_rest" /\ main'.pc = "idle")
          => LET g == state.generation + 1 IN
             /\ state' \in {Started(state, main.mode), set_restarting(Started(state, main.mode), FALSE)}
             /\ main.cb = "switch" => state' = Started(state, main.mode)
             /\ thr[g].pc = "none" /\ thr'[g].pc = "begin"
             /\ thr'[g].kind = thread_target(main.mode, config)
             /\ \A h \in Gens \ {g} : thr'[h] = thr[h]
             /\ hist'.startCalls = hist.startCalls + 1]_vars

\* a switch made while a restart was pending has just returned: the new
\* adapter is about to run, the failure count and the flag are still there
C18_Witness ==
    /\ Idle /\ hist.sig = <<<<"mode_changed", "offline">>>>
    /\ state.generation = 2 /\ thr[2].pc = "begin" /\ state.thread_alive
    /\ state.restart_count = 1 /\ state.restarting /\ ~is_stopped(state)

\* C19: while a restart is in flight or the session is stopped, a health
\* tick and a thread_died signal change nothing: no count, no stop, no
\* scheduled restart, no status.
C19_IgnoredWhileRestartingOrStopped ==
    [][(state.restarting \/ state.stop_event)
          => /\ health_check(state, live, now, timers)
                    = [st |-> state, live |-> live, timers |-> timers, sig |-> <<>>]
             /\ ~HealthCheck
             /\ (Deliver /\ Head(queue)[1] = "thread_died")
                => /\ state' = state /\ live' = live /\ timers' = timers
                   /\ main' = main /\ hist'.sig = <<>> /\ hist'.fails = hist.fails]_vars

\* two adapters have died and both signals have been taken from the queue,
\* the second while the restart scheduled for the first was still pending:
\* one failure was counted, and the tick finds the thread dead
C19_Witness ==
    /\ state.restarting /\ ~is_stopped(state) /\ queue = <<>> /\ Idle
    /\ state.generation = 2 /\ thr[1].pc = "done" /\ thr[2].pc = "done"
    /\ state.restart_count = 1 /\ ~state.thread_alive /\ hist.fails = 1

\* the adapter thread of the current session is at work (not yet in its
\* finally), respectively has not yet ended
AdapterWorking == thr[state.generation].pc \in {"begin", "popen", "setproc", "test", "loop"}

AdapterExists == thr[state.generation].pc \notin {"none", "done"}

\* no transcript for too long, after one has been seen
Stale == state.last_text_time > 0 /\ now - state.last_text_time > STALE_LIMIT

\* C20: a health tick that is not skipped classifies the session as
\* unhealthy exactly when the adapter thread is not running, or the capture
\* process is not running, or transcripts have stopped for more than 120 s;
\* otherwise the session is healthy and the tick does nothing.
C20_UnhealthyExactlyWhen ==
    (Idle /\ ~state.restarting /\ ~is_stopped(state))
    => /\ problem(state, live, now) # ""
          => (~AdapterWorking \/ ~proc_alive(state, live) \/ Stale)
       /\ problem(state, live, now) = ""
          => /\ AdapterExists /\ proc_alive(state, live) /\ ~Stale
             /\ health_check(state, live, now, timers)
                   = [st |-> state, live |-> live, timers |-> timers, sig |-> <<>>]

\* a restart scheduled by the health monitor is pending (and the model's
\* generation bound leaves room for it to run)
HealthRestartPending == \E t \in timers : t.cb = "health" /\ t.gen < lim.gen

\* start_transcription cannot return because the model has no room for
\* another adapter thread beside those still running
NoRoomForThread == main.pc = "start_rest" /\ Cardinality(Active) >= lim.active

\* C21: an unhealthy tick with budget left sets restarting, adds one to
\* restart_count, stops the session if it is marked alive and schedules one
\* restart; that restart aborts when the generation has changed and else
\* calls start_transcription with the session's mode; either way restarting
\* is false afterwards, so it never stays true forever (as far as the
\* model's bounds on generations and threads let the restart run).
C21_HealthRestart ==
    /\ [][/\ (HealthCheck /\ can_restart(state))
             => /\ state'.restarting /\ state'.restart_count = state.restart_count + 1
                /\ state'.stop_event = state.thread_alive
                /\ state.thread_alive => (state'.current_proc = None /\ live' = live \ {state.current_proc})
                /\ ~state.thread_alive => (state'.current_proc = state.current_proc /\ live' = live)
                /\ timers' = timers \cup {[cb |-> "health", gen |-> state.generation, mode |-> state.mode]}
                /\ Cardinality(timers') = Cardinality(timers) + 1
                /\ hist'.startCalls = hist.startCalls /\ main' = main
          /\ \A t \in timers :
                (t.cb = "health" /\ t \notin timers')
                => IF t.gen # state.generation
                   THEN /\ ~state'.restarting /\ main' = main
                        /\ state' = set_restarting(state, FALSE)
                   ELSE /\ main'.pc = "start_rest" /\ main'.cb = "health"
                        /\ main'.mode = state.mode
          /\ StartReturns("health")
             => ~state'.restarting /\ state'.mode = state.mode]_vars
    /\ (HealthRestartPending ~> (~state.restarting \/ NoRoomForThread))

\* a tick found the capture process of a live session gone, stopped the
\* session, and the restart it scheduled is now inside start_transcription
C21_Witness ==
    /\ main.pc = "start_rest" /\ main.cb = "health" /\ main.mode = state.mode
    /\ state.restart_count = 1 /\ state.restarting /\ is_stopped(state)

\* the thread-died handler schedules a plain restart: the signal is not
\* ignored, budget is left and the escalation rule does not apply
PlainRestartStep ==
    /\ Deliver /\ Head(queue)[1] = "thread_died"
    /\ ~(state.restarting \/ is_stopped(state)) /\ can_restart(state)
    /\ ~escalates(state, Head(queue)[2], state.restart_count + 1)

\* C22: a thread_died signal handled with budget left and without
\* escalation schedules exactly one generation-gated restart of the mode the
\* running session has, and that restart leaves the session's mode as it is.
C22_RestartKeepsMode ==
    [][/\ PlainRestartStep
          => /\ timers' = timers \cup {[cb |-> "restart", gen |-> state.generation, mode |-> state.mode]}
             /\ Cardinality(timers') = Cardinality(timers) + 1
       /\ StartReturns("restart") => state'.mode = state.mode]_vars

\* C23: once the escalation has put the session in Offline mode, the mode
\* stays Offline through health ticks, thread_died signals and router edges
\* (no switch_mode is ever called in the specification this is stated for,
\* so an Offline session there is an escalated one).
C23_DowngradePermanent ==
    [][(state.mode = "offline" /\ hist.toggles = 0) => state'.mode = "offline"]_vars

\* a router tick on which the phone-active signal goes from inactive to active
RisingEdge == ~view.phone_was_active /\ view'.phone_was_active /\ CheckMuted

\* an adapter thread chooses its capture device in this step
PicksDevice(g) == thr[g].device = "" /\ thr'[g].device # ""

\* C24: on a rising edge use_phone_audio becomes true and last_phone_speech
\* and last_text_time are set to the current time; if no restart is in
\* flight the session is stopped and one restart in Online mode is
\* scheduled, and the adapter it starts opens the phone device as long as
\* use_phone_audio is still set.
C24_RisingEdge ==
    [][/\ RisingEdge
          => /\ state'.use_phone_audio
             /\ state'.last_phone_speech = now /\ state'.last_text_time = now
             /\ IF state.restarting
                THEN /\ timers' = timers /\ live' = live
                     /\ state' = [state EXCEPT !.use_phone_audio = TRUE, !.last_phone_speech = now,
                                               !.last_text_time = now]
                ELSE /\ state'.restarting /\ is_stopped(state') /\ state'.current_proc = None
                     /\ live' = live \ {state.current_proc}
                     /\ timers' = timers \cup {[cb |-> "phone", gen |-> 0, mode |-> "online"]}
                     /\ Cardinality(timers') = Cardinality(timers) + 1
       /\ StartReturns("phone")
          => /\ state'.mode = "online" /\ ~state'.restarting /\ ~is_stopped(state')
             /\ state'.generation = state.generation + 1
       /\ \A g \in Gens :
             (PicksDevice(g) /\ state.use_phone_audio) => thr'[g].device = "phone"]_vars

\* the session started after a rising edge is reading the phone device
C24_Witness ==
    /\ state.use_phone_audio /\ view.phone_was_active /\ state.mode = "online"
    /\ ~state.restarting /\ timers = {} /\ Idle
    /\ thr[state.generation].pc = "loop" /\ thr[state.generation].device = "phone"
    /\ proc_alive(state, live)

\* a router tick on which the phone-active signal goes from active to inactive
FallingEdge == view.phone_was_active /\ ~view'.phone_was_active /\ CheckMuted

\* C25: on a falling edge use_phone_audio becomes false; if no restart is in
\* flight the session is stopped and one restart is scheduled, which clears
\* restarting when it has run, and the adapter it starts opens the room
\* device as long as use_phone_audio is still clear; with a restart in
\* flight nothing else changes.
C25_FallingEdge ==
    [][/\ FallingEdge
          => /\ ~state'.use_phone_audio
             /\ IF state.restarting
                THEN /\ timers' = timers /\ live' = live
                     /\ state' = [state EXCEPT !.use_phone_audio = FALSE]
                ELSE /\ state'.restarting /\ is_stopped(state') /\ state'.current_proc = None
                     /\ live' = live \ {state.current_proc}
                     /\ timers' = timers \cup {[cb |-> "room", gen |-> 0, mode |-> "online"]}
                     /\ Cardinality(timers') = Cardinality(timers) + 1
       /\ StartReturns("room")
          => /\ ~state'.restarting /\ ~is_stopped(state')
             /\ state'.generation = state.generation + 1
       /\ \A g \in Gens :
             (PicksDevice(g) /\ ~state.use_phone_audio) => thr'[g].device = "room"]_vars

\* the call is over: the session that read the phone device was stopped on
\* the falling edge and the restart scheduled there is running
C25_Witness ==
    /\ main.pc = "start_rest" /\ main.cb = "room" /\ state.generation = 2
    /\ ~state.use_phone_audio /\ ~view.phone_was_active /\ hist.writes = TwoWrites
    /\ state.restarting /\ is_stopped(state) /\ state.current_proc = None

\* on phone audio, and the last phone speech is more than the timeout ago
SilentCall == state.use_phone_audio /\ now - state.last_phone_speech > PHONE_SILENCE_TIMEOUT

\* C26: a router tick on phone audio more than 10 s after the last phone
\* speech clears the phone-active file and handles the tick as a falling
\* edge; the router clears the file in no other situation (the only other
\* writer is the mute helper).
C26_PhoneSilence ==
    [][/\ (SilentCall /\ CheckMuted)
          => /\ ~phone_file' /\ ~view'.phone_was_active /\ ~state'.use_phone_audio
             /\ view.phone_was_active
             /\ IF state.restarting
                THEN timers' = timers /\ state' = [state EXCEPT !.use_phone_audio = FALSE]
                ELSE /\ state'.restarting /\ is_stopped(state')
                     /\ timers' = timers \cup {[cb |-> "room", gen |-> 0, mode |-> "online"]}
       /\ (phone_file' # phone_file /\ hist'.writes = hist.writes)
          => phone_file /\ SilentCall /\ CheckMuted]_vars

\* the helper wrote '1' once and never '0': the router has ended the silent
\* call itself and scheduled the restart on the room device
C26_Witness ==
    /\ ~phone_file /\ hist.writes = 1 /\ ~state.use_phone_audio /\ ~view.phone_was_active
    /\ state.restarting /\ is_stopped(state) /\ Idle
    /\ \E t \in timers : t.cb = "room"

\* nothing is in flight: no handler running, no callback scheduled, no
\* restart pending, and the next router tick would see no edge
RouterSettled ==
    /\ Idle /\ timers = {} /\ ~state.restarting
    /\ phone_active(state, phone_file, now) = view.phone_was_active

\* C27: an edge that arrived while a restart was in flight is acted on
\* later: once nothing is in flight any more, the running session reads the
\* device that matches the phone-active signal.
C27_DeferredEdgeNotLost ==
    (RouterSettled /\ thr[state.generation].device # "")
    => thr[state.generation].device = (IF view.phone_was_active THEN "phone" ELSE "room")

\* the capture processes adapter thread g has spawned (one per attempt)
OwnProcs(g) == {ProcId(g, 0), ProcId(g, 1)}

\* thread g is in its finally block and takes a step
CleanupStep(g) == thr[g].pc \in {"fin1", "fin2"} /\ thr'[g] # thr[g]

\* C28: the cleanup of an adapter terminates and unregisters only capture
\* processes that this adapter spawned, never the process of a session
\* started after it.
C28_CleanupOwnProcessOnly ==
    [][\A g \in Gens :
          CleanupStep(g)
          => /\ live \ live' \subseteq OwnProcs(g)
             /\ state'.current_proc # state.current_proc
                => state.current_proc \in OwnProcs(g)]_vars

\* C29: thread_alive is true while the adapter of the current session is in
\* its main loop (a fallback adapter running in the same thread included)
\* and false once that adapter thread has ended.
C29_ThreadAliveTracksAdapter ==
    /\ thr[state.generation].pc = "loop" => state.thread_alive
    /\ thr[state.generation].pc = "done" => ~state.thread_alive

\* a transcript whose 60 s success streak resets restart_count to 0
DecayStep ==
    /\ state.restart_count > 0 /\ state.success_time # 0
    /\ now - state.success_time > SUCCESS_WINDOW
    /\ TextStep

\* C30: success_time is zero when a new session has started, the first
\* transcript of the session sets it to the current time, and the transcript
\* whose 60 s streak resets restart_count resets success_time to zero too.
C30_SuccessSinceReset ==
    [][/\ (main.pc = "start_rest" /\ StartRest) => state'.success_time = 0
       /\ (state.success_time = 0 /\ TextStep) => state'.success_time = now
       /\ DecayStep => state'.success_time = 0]_vars

\* the step just taken emitted the signal named sig
Emitted(sig) == \E i \in DOMAIN hist'.sig : hist'.sig[i][1] = sig

\* adapter thread g is in its finally block and holds no capture process:
\* none of its attempts yielded a running one
Unready(g) ==
    /\ thr[g].pc \in {"fin1", "fin2", "fin3"}
    /\ thr[g].arecord = None /\ thr[g].attempt = Attempts(thr[g].kind) - 1

\* the last attempt of g's retry loop finds its capture process gone
Exhausted(g) == thr[g].pc = "test" /\ thr'[g].pc = "fin1"

\* thread g leaves the finally block it is in
LeavesFinally(g) == thr[g].pc = "fin3" /\ thr'[g] # thr[g]

OtherProc == ProcId(0, 1)

\* cleanup_audio_processes: pkill -9 -f arecord ends every arecord process
\* of the machine
cleanup_audio_processes(L) == {}

\* the process has been launched and main() has not run yet; the phone file
\* may be left over from an earlier run
InitBoot ==
    /\ lim = Limits(RaceGen, 1, 0, 0, 0, FewConfigs)
    /\ config \in [stt_provider : lim.providers, has_key : lim.keys, offline_model : lim.models]
    /\ state = TranscriptionState
    /\ live \in SUBSET {OtherProc}
    /\ now = StartTime
    /\ phone_file \in BOOLEAN
    /\ thr = [g \in 1..lim.gen |-> NoThread]
    /\ main = [pc |-> "boot", mode |-> "", cb |-> ""]
    /\ timers = {}
    /\ queue = <<>>
    /\ view = [current_mode |-> "online", phone_was_active |-> FALSE]
    /\ hist = [startCalls |-> 0, toggles |-> 0, writes |-> 0, fails |-> 0, sig |-> <<>>]
    /\ helper = "monitor"

\* main(): clear_stale_state, cleanup_audio_processes, then
\* start_transcription('online') up to its settle sleep
MainStart ==
    /\ main.pc = "boot"
    /\ phone_file' = FALSE
    /\ EnterStart(state, cleanup_audio_processes(live), "online", "main")
    /\ hist' = NoSig
    /\ UNCHANGED <<now, config, thr, timers, queue, view, lim, helper>>

NextBoot == MainStart \/ NextCore

SpecBoot == InitBoot /\ [][NextBoot]_vars

\* the process handles the program holds: the registered one and the one
\* each adapter thread started
Handles == {state.current_proc} \cup {thr[g].arecord : g \in Gens}

\* C32: a capture process is only ever terminated through a handle the
\* program owns: whenever a step of the program ends capture processes, each
\* of them is the registered process or the process of an adapter thread.
C32_OwnedHandleOnly ==
    [][(live' # live /\ ~ProcExit) => (live \ live') \subseteq Handles]_vars

\* ------------------------------------------------- mute helper, process exit
\* phase 1 of the helper: its input stream on the phone card hears the call;
\* the callback writes '1' and the main loop, which polls every 0.1 s, leaves
\* the with-block: the stream is closed (phase 2)
HelperHear ==
    /\ helper = "monitor" /\ hist.writes < lim.writes
    /\ phone_file' = TRUE
    /\ helper' = "wait"
    /\ hist' = [hist EXCEPT !.writes = @ + 1, !.sig = <<>>]
    /\ UNCHANGED <<state, live, now, config, thr, main, timers, queue, view, lim>>

\* phase 2 ends when the file no longer holds '1': room mic unmuted, a
\* pause, and the stream on the phone card is opened again
HelperResume ==
    /\ helper = "wait" /\ ~phone_file
    /\ helper' = "monitor"
    /\ hist' = NoSig
    /\ UNCHANGED <<state, live, now, phone_file, config, thr, main, timers, queue, view, lim>>

\* SIGTERM / SIGINT in the helper: sys.exit(0) closes the stream on the
\* way out of the with-block and runs the atexit cleanup, which writes '0'
HelperTerm ==
    /\ helper # "exited"
    /\ helper' = "exited"
    /\ phone_file' = FALSE
    /\ hist' = NoSig
    /\ UNCHANGED <<state, live, now, config, thr, main, timers, queue, view, lim>>

\* the caption application ends: SIGTERM (no handler is installed) or
\* Escape -> QApplication.quit() -> sys.exit. The adapter threads are daemon
\* threads: they end where they are, their finally blocks do not run.
Quit ==
    /\ main.pc # "exited"
    /\ main' = [pc |-> "exited", mode |-> "", cb |-> ""]
    /\ thr' = [g \in DOMAIN thr |-> IF thr[g].pc \in {"none", "done"} THEN thr[g] ELSE Done]
    /\ hist' = NoSig
    /\ UNCHANGED <<state, live, now, phone_file, config, timers, queue, view, lim, helper>>

\* Both programs until one of them is told to end.
InitExit == InitWith(Limits(RaceGen, 1, 0, 0, MaxWrites, FewConfigs))

NextExit == NextCore \/ CheckMuted \/ HelperHear \/ HelperTerm \/ Quit

SpecExit == InitExit /\ [][NextExit]_vars

\* C33: when a process ends on a termination signal, it has released the
\* capture device (no capture process of the caption application is left
\* running, the helper's stream is closed) and the phone file does not hold
\* '1'; for the caption application and for the mute helper.
C33_CleanShutdown ==
    [][/\ (main.pc # "exited" /\ main'.pc = "exited") => (live' = {} /\ ~phone_file')
       /\ (helper # "exited" /\ helper' = "exited") => ~phone_file']_vars

\* ten seconds pass while the event loop is idle: no queued signal and no
\* single-shot callback (due within 0.5 to 3 s) is still pending afterwards
QuietTick == Idle /\ timers = {} /\ queue = <<>> /\ PhoneTick

\* A phone call, the mute helper in both of its phases, failures and the
\* mode button.
InitHelper == InitWith(Limits(MaxGen, 1, DecayTicks, MaxToggles, MaxWrites, NoKeyConfigs))

NextHelper ==
    NextCore \/ CheckMuted \/ ToggleMode \/ SwitchStart \/ HelperHear \/ HelperResume \/ QuietTick

SpecHelper == InitHelper /\ [][NextHelper]_vars

\* a capture process of the caption application is running on the phone device
AppHoldsPhone == \E g \in Gens : thr[g].arecord \in live /\ thr[g].device = "phone"

\* C34: the helper's monitoring stream and a phone-bound capture process of
\* the caption application never hold the phone device at the same time.
\* Stated for the states in which no handler is running and no restart is
\* pending: there the overlap does not depend on how long a restart takes.
C34_PhoneDeviceReleased ==
    (helper = "monitor" /\ Idle /\ timers = {} /\ ~state.restarting) => ~AppHoldsPhone

\* the oldest queued signal is a thread_died of a superseded session: the
\* adapter thread of the current session is running and has emitted none
StaleDeath ==
    /\ queue # <<>> /\ Head(queue)[1] = "thread_died"
    /\ thr[state.generation].pc \notin {"none", "done"}
    /\ thr[state.generation].died = 0

\* C35: a thread_died signal of a superseded session has no effect on the
\* current session: its delivery leaves restart_count, the restarting flag
\* and the mode as they are and schedules no restart.
C35_StaleDeathIgnored ==
    [][(StaleDeath /\ Deliver)
          => /\ state'.restart_count = state.restart_count
             /\ state'.restarting = state.restarting
             /\ state'.mode = state.mode
             /\ timers' = timers]_vars

\* C36: a session whose adapter thread is running (thread_alive set, the
\* thread not yet in its finally block) and that is not stale is healthy,
\* whether or not the adapter has registered a capture process: a health
\* tick neither stops it nor increments restart_count.
C36_RunningSessionHealthy ==
    [][(AdapterWorking /\ state.thread_alive /\ ~Stale /\ HealthCheck)
          => /\ state'.restart_count = state.restart_count
             /\ ~is_stopped(state')
             /\ timers' = timers]_vars

\* C37: at most one scheduled restart callback is pending at any time;
\* whenever a handler can look at it, restarting is true exactly if one is
\* pending (it stays set while the callback itself runs); a handler that
\* schedules a restart does so only when none was pending.
C37_OneRestartPending ==
    [][/\ Cardinality(timers') <= 1
       /\ timers' # {} => state'.restarting
       /\ Idle' => (state'.restarting <=> timers' # {})
       /\ (timers' \ timers # {}) => (timers = {} /\ ~state.restarting)]_vars

\* a restart is pending and a further failure report is waiting in the queue
C37_Witness ==
    /\ Cardinality(timers) = 1 /\ state.restarting /\ Idle
    /\ queue # <<>> /\ Head(queue)[1] = "thread_died"
    /\ phone_file # view.phone_was_active

\* Supervision, the mode button and the router, with the scheduling the
\* program has.
InitStops == InitWith(Limits(RaceGen, 1, 0, MaxToggles, MaxWrites, NoKeyConfigs))

FairStops ==
    /\ WF_vars(StartRest)
    /\ WF_vars(SwitchStart)
    /\ WF_vars(\E t \in timers : TimerSkip(t) \/ TimerRun(t))
    /\ \A g \in 1..RaceGen : WF_vars(AdapterProgress(g))

SpecStops == InitStops /\ [][NextToggle]_vars /\ FairStops

\* the model's bounds keep the start_transcription that is due from
\* running: no room for its thread, or its callback is pending at the last
\* generation explored
StartBlocked ==
    \/ NoRoomForThread
    \/ /\ state.generation >= lim.gen
       /\ \E t \in timers : gated(t.cb) => t.gen = state.generation

\* C38: the session never stays stopped forever: after every
\* stop_transcription (health monitor, router, switch_mode) a
\* start_transcription follows, and it clears the stop flag, also when a
\* scheduled restart is skipped because the generation changed (as far as
\* the model's bounds on generations and threads let the start run).
C38_NeverStoppedForever ==
    /\ [][(main.pc = "start_rest" /\ main'.pc = "idle") => ~is_stopped(state')]_vars
    /\ is_stopped(state) ~> (~is_stopped(state) \/ StartBlocked)

\* a health restart is pending for a generation that a switch_mode has
\* replaced meanwhile: it will be skipped
C38_Witness ==
    /\ \E t \in timers : t.cb = "health" /\ t.gen < state.generation
    /\ hist.toggles = 1 /\ ~is_stopped(state) /\ state.restarting

\* C39: after every router tick use_phone_audio equals phone_was_active and
\* equals the phone-active value the tick acted on (the file holds '1' and
\* the silence rule did not fire); use_phone_audio changes in no step other
\* than a router tick that sees an edge.
C39_PhoneAudioFollowsRouter ==
    [][/\ CheckMuted
          => /\ state'.use_phone_audio = view'.phone_was_active
             /\ state'.use_phone_audio = (phone_file /\ ~phone_silent(state, now))
       /\ state'.use_phone_audio # state.use_phone_audio
          => /\ CheckMuted
             /\ view.phone_was_active # (phone_file /\ ~phone_silent(state, now))]_vars

\* the call has ended and the tick that saw it has scheduled the room start
C39_Witness ==
    /\ ~state.use_phone_audio /\ ~view.phone_was_active /\ ~phone_file
    /\ hist.writes = TwoWrites /\ Idle
    /\ \E t \in timers : t.cb = "room"

\* C40: whenever no mode switch and no restart is in progress, the mode the
\* view holds (the one toggle_mode computes its target from) equals the
\* mode of the session.
C40_ViewModeIsSessionMode ==
    (Idle /\ timers = {} /\ ~state.restarting) => view.current_mode = state.mode

=============================================================================
